---------------------------- MODULE Spec2Model ----------------------------
(***************************************************************************)
(* Model of drivers/misc/sfp/amzn-sfp.c: the sysfs "eeprom" accessor       *)
(* amzn_sfp_rw() of one device session (struct amzn_sfp_softc), called     *)
(* concurrently by several readers and writers.                            *)
(*                                                                         *)
(* Time is counted in jiffies, without wrap-around of the counter.  The    *)
(* code reads jiffies and sc->cur_page_ts only to compare jiffies with     *)
(* cur_page_ts and cur_page_ts + window, so the model keeps                *)
(* elapsed = jiffies - sc->cur_page_ts, saturated above both windows.      *)
(* Offsets and lengths are modelled without 64-bit wrap-around.  The       *)
(* module is not exchanged while the session exists: the device's page     *)
(* select register changes only through the transactions of the session.  *)
(* A return value is a negated errno or a byte count.                      *)
(***************************************************************************)
EXTENDS Integers, Sequences, FiniteSets, TLC

(* ------------------------------ bounds --------------------------------- *)
\* Number of concurrent callers of amzn_sfp_read / amzn_sfp_write.
NumProcs == 2
\* Kernel tick rate (jiffies per second) of the build.
HZ == 2
\* Number of callers whose successive accesses SpecHist records.
HistCallers == 1
\* Number of callers that work off requests call by call in SpecLoop.
LoopCallers == 1

(* ------------------------- program constants --------------------------- *)
AMZN_SFP_TYPE_SFP_PLUS == 1
AMZN_SFP_TYPE_QSFP_PLUS == 2
AMZN_SFP_TYPE_QSFP28 == 3
AMZN_SFP_TYPE_QSFP_DD == 4
\* driver_data of a device id that names none of the four classes
AMZN_SFP_TYPE_UNKNOWN == 0
AMZN_SFP_FULL_SIZE == 256
AMZN_SFP_HALF_SIZE == 128
AMZN_QSFP_PAGE_SELECT == 127
amzn_sfp_page_retention == 1
amzn_sfp_page_load_wait_ms == 4
\* "if (len > 64) len = 64"
MaxChunk == 64
\* flag of a read message / of amzn_sfp_read's call
I2C_M_RD == 1
\* sc->cur_page value for "we don't know"
UnknownPage == -1
\* rt_mutex without owner
NoOwner == 0
\* the errno values amzn_sfp_rw returns, negated as it returns them
ESPIPE == -29
EINVAL == -22
ENOSPC == -28
EPIPE == -32

Procs == 1 .. NumProcs
SfpTypes ==
    { AMZN_SFP_TYPE_UNKNOWN, AMZN_SFP_TYPE_SFP_PLUS, AMZN_SFP_TYPE_QSFP_PLUS,
      AMZN_SFP_TYPE_QSFP28, AMZN_SFP_TYPE_QSFP_DD }
QsfpTypes ==
    { AMZN_SFP_TYPE_QSFP_PLUS, AMZN_SFP_TYPE_QSFP28, AMZN_SFP_TYPE_QSFP_DD }

\* Errors the bus transport (i2c_transfer) may report, taken from the
\* negative errno values it may return: -EIO, -ENXIO, -EPIPE.
TransportErrs == { -5, -6, EPIPE }
\* "error < 0"
IsErr(v) == v < 0

\* The (offset, length, flags) triples the callers of a session of each
\* class issue: flags is I2C_M_RD from amzn_sfp_read, 0 from amzn_sfp_write.
Requests(type) ==
    IF type = AMZN_SFP_TYPE_SFP_PLUS
    THEN { <<-1, 0, I2C_M_RD>>, <<200, 0, 0>>, <<512, 1, I2C_M_RD>>, <<500, 20, 0>>,
           <<300, 10, 0>>, <<200, 100, I2C_M_RD>>, <<100, 100, 0>>,
           <<511, 1, I2C_M_RD>> }
    ELSE IF type \in QsfpTypes
    THEN { <<-1, 0, I2C_M_RD>>, <<200, 0, 0>>, <<32896, 1, 0>>,
           <<32890, 10, I2C_M_RD>>,
           <<100, 100, 0>>, <<100, 100, I2C_M_RD>>, <<200, 50, I2C_M_RD>>,
           <<350, 100, 0>>, <<32768, 128, I2C_M_RD>> }
    ELSE { <<-1, 0, I2C_M_RD>>, <<200, 0, 0>>, <<256, 1, I2C_M_RD>>, <<200, 100, 0>>,
           <<100, 100, I2C_M_RD>>, <<200, 50, 0>>, <<255, 1, I2C_M_RD>> }
\* Values of the device's page select register (a byte) the model explores.
PageVals == { 0, 1, 255 }

(* ----------------------------- pure steps ------------------------------ *)
\* sc->attr.size as set by amzn_sfp_probe
AttrSize(type) ==
    IF type = AMZN_SFP_TYPE_SFP_PLUS THEN 2 * AMZN_SFP_FULL_SIZE
    ELSE IF type \in QsfpTypes THEN 257 * AMZN_SFP_HALF_SIZE
    ELSE AMZN_SFP_FULL_SIZE

\* Validate with the length tested before the offset.
ValidateLenFirst(size, o, l) ==
    IF l = 0 THEN EINVAL
    ELSE IF o < 0 \/ o >= size THEN ESPIPE
    ELSE IF o + l > size THEN ENOSPC
    ELSE 0

\* "Make sure the offset and length are valid": 0, or the error returned.
Validate(size, o, l) ==
    IF o < 0 \/ o >= size THEN ESPIPE
    ELSE IF l = 0 THEN EINVAL
    ELSE IF o + l > size THEN ENOSPC
    ELSE 0

\* addr - client->addr after the switch
AddrOffset(type, o) ==
    IF type = AMZN_SFP_TYPE_SFP_PLUS THEN o \div AMZN_SFP_FULL_SIZE ELSE 0

\* IsUpper with every offset of a QSFP session on the "Upper half" path.
IsUpperAll(type, o) == type \in QsfpTypes

\* Whether the access takes the "Upper half" path of the QSFP case.
IsUpper(type, o) == type \in QsfpTypes /\ o >= AMZN_SFP_HALF_SIZE

\* reg (u8) after the switch
Reg(type, o) ==
    IF type = AMZN_SFP_TYPE_SFP_PLUS THEN o % AMZN_SFP_FULL_SIZE
    ELSE IF type \in QsfpTypes
         THEN IF o < AMZN_SFP_HALF_SIZE THEN o
              ELSE (o % AMZN_SFP_HALF_SIZE) + AMZN_SFP_HALF_SIZE
    ELSE o % 256

\* ClampLen without the clamp of the SFP+ case.
ClampLenNoSfp(type, o, l) ==
    IF type \in QsfpTypes
    THEN IF o < AMZN_SFP_HALF_SIZE
         THEN IF l + Reg(type, o) > AMZN_SFP_HALF_SIZE
              THEN AMZN_SFP_HALF_SIZE - Reg(type, o) ELSE l
         ELSE IF l + Reg(type, o) > AMZN_SFP_FULL_SIZE
              THEN AMZN_SFP_FULL_SIZE - Reg(type, o) ELSE l
    ELSE l

\* ClampLen that stops the lower half one byte early.
ClampLenShort(type, o, l) ==
    IF type = AMZN_SFP_TYPE_SFP_PLUS
    THEN IF l + Reg(type, o) > AMZN_SFP_FULL_SIZE
         THEN AMZN_SFP_FULL_SIZE - Reg(type, o) ELSE l
    ELSE IF type \in QsfpTypes
         THEN IF o < AMZN_SFP_HALF_SIZE
              THEN IF l + Reg(type, o) > AMZN_SFP_HALF_SIZE - 1
                   THEN AMZN_SFP_HALF_SIZE - 1 - Reg(type, o) ELSE l
              ELSE IF l + Reg(type, o) > AMZN_SFP_FULL_SIZE
                   THEN AMZN_SFP_FULL_SIZE - Reg(type, o) ELSE l
    ELSE l

\* len after the switch
ClampLen(type, o, l) ==
    IF type = AMZN_SFP_TYPE_SFP_PLUS
    THEN IF l + Reg(type, o) > AMZN_SFP_FULL_SIZE
         THEN AMZN_SFP_FULL_SIZE - Reg(type, o) ELSE l
    ELSE IF type \in QsfpTypes
         THEN IF o < AMZN_SFP_HALF_SIZE
              THEN IF l + Reg(type, o) > AMZN_SFP_HALF_SIZE
                   THEN AMZN_SFP_HALF_SIZE - Reg(type, o) ELSE l
              ELSE IF l + Reg(type, o) > AMZN_SFP_FULL_SIZE
                   THEN AMZN_SFP_FULL_SIZE - Reg(type, o) ELSE l
    ELSE l

\* PageByte without the "- 1".
PageByteNoBias(o) == (o \div AMZN_SFP_HALF_SIZE) % 256

\* the byte stored by "iobuf[1] = (ofs / AMZN_SFP_HALF_SIZE) - 1"
PageByte(o) == ((o \div AMZN_SFP_HALF_SIZE) - 1) % 256

\* The int value of a char holding byte b: char is signed or unsigned,
\* as the build has it.
CharVal(signed, b) == IF signed /\ b >= 128 THEN b - 256 ELSE b

\* time_in_range that excludes the end of the range.
TimeInRangeHalfOpen(a, b, c) == a >= b /\ a < c

\* time_in_range(a, b, c): b <= a <= c
TimeInRange(a, b, c) == a >= b /\ a <= c

\* The windows of the two time_in_range tests, in jiffies.
RetentionJiffies == amzn_sfp_page_retention * HZ

\* msecs_to_jiffies(m): m milliseconds rounded up to jiffies
MsecsToJiffies(m) == (m * HZ + 999) \div 1000

SettleJiffies == MsecsToJiffies(amzn_sfp_page_load_wait_ms)
\* elapsed saturates one jiffy above the longer window
MaxElapsed == (IF RetentionJiffies > SettleJiffies THEN RetentionJiffies
               ELSE SettleJiffies) + 1

\* NeedVerify without the test of the time.
NeedVerifyUnknownOnly(page, since) == page = UnknownPage

\* The condition under which the page select register is read, with
\* since = jiffies - sc->cur_page_ts.
NeedVerify(page, since) ==
    \/ page = UnknownPage
    \/ ~TimeInRange(since, 0, RetentionJiffies)

\* SamePage that does not take page 0 for current.
SamePageNotZero(signed, b, page) ==
    b # 0 /\ (IF signed /\ b >= 128 THEN b - 256 ELSE b) = page

\* SamePage that never finds the desired page current.
SamePageNever(signed, b, page) == FALSE

\* "Don't write the page select register if the desired page is the same
\*  as the current page": iobuf[1] == sc->cur_page
SamePage(signed, b, page) == CharVal(signed, b) = page

\* ClampChunk without the clamp.
ClampChunkNone(l) == l

\* the clamp to the SPI-I2C controller's buffer
ClampChunk(l) == IF l > MaxChunk THEN MaxChunk ELSE l

\* The messages of the data phase, each a struct i2c_msg: addr (less
\* client->addr), flags and len; reg is the register byte that heads the
\* buffer of a write message (-1 in a read message, which sends none).
DataMsgs(a, f, r, l) ==
    IF f = I2C_M_RD
    THEN << [addr |-> a, flags |-> 0, len |-> 1, reg |-> r],
            [addr |-> a, flags |-> I2C_M_RD, len |-> l, reg |-> -1] >>
    ELSE << [addr |-> a, flags |-> 0, len |-> l + 1, reg |-> r] >>

\* NeedSettle that ends the wait one jiffy earlier.
NeedSettleShort(since) == since >= 0 /\ since < (amzn_sfp_page_load_wait_ms * HZ + 999) \div 1000

\* The condition under which the data phase is preceded by usleep_range,
\* with since = jiffies - sc->cur_page_ts.
NeedSettle(since) == TimeInRange(since, 0, SettleJiffies)

\* what amzn_sfp_rw returns after the data phase's i2c_transfer
Result(error, nmsgs, l) ==
    IF IsErr(error) THEN error
    ELSE IF error # nmsgs THEN EPIPE
    ELSE l


(* ------------------------------- state --------------------------------- *)
VARIABLES
    sfp_type,      \* sc->sfp_type, fixed by amzn_sfp_probe
    char_signed,   \* whether the build's plain char is signed
    elapsed,       \* jiffies - sc->cur_page_ts, saturated at MaxElapsed
    lock,          \* sc->lock: the owner of the rt_mutex, or NoOwner
    cur_page,      \* sc->cur_page
    page_select,   \* the device's page select register (byte 127)
    pc,            \* where each caller is in amzn_sfp_rw
    ofs,           \* parameter ofs
    req_len,       \* parameter len as passed by the caller
    flags,         \* parameter flags
    len,           \* local len, as amzn_sfp_rw rewrites it
    addr,          \* local addr - client->addr
    reg,           \* local reg
    iobuf1,        \* iobuf[1], the byte of the desired page
    msg,           \* the messages of the data phase
    error,         \* local error: what the last i2c_transfer returned
    retval,        \* what amzn_sfp_rw returned
    nverify,       \* reads of the page select register issued by the access
    nselect,       \* writes of the page select register issued by the access
    ndata,         \* data-phase transfers issued by the access
    slept,         \* whether the access called usleep_range
    clean,         \* every transfer of the access so far completed in full
    entry_fresh,   \* the access took the lock within the retention of cur_page_ts
    inval,         \* a page transfer failed and no upper-half access took the lock since
    prev,          \* the last access that left the critical section
    track,         \* whether the run records entry_fresh and prev
    job            \* the request each caller is working off, call by call

shared == << sfp_type, char_signed, elapsed, lock, cur_page, page_select >>
request == << ofs, req_len, flags >>
locals == << len, addr, reg, iobuf1, msg, error, retval >>
history == << nverify, nselect, ndata, slept, clean, entry_fresh, inval, prev,
             track >>
vars == << shared, pc, request, locals, history, job >>

\* prev when no access, or none that counts, came before
NoPrev == [page |-> -1, nsel |-> 0]

\* job of a caller that is not working off a request
NoJob == [start |-> 0, total |-> 0, flags |-> 0, done |-> 0, calls |-> 0]

\* What amzn_sfp_probe leaves: devm_kzalloc zeroes the softc, cur_page is
\* -1, and jiffies is whatever the clock shows.
Init ==
    /\ sfp_type \in SfpTypes
    /\ char_signed \in BOOLEAN
    /\ elapsed \in 0 .. MaxElapsed
    /\ lock = NoOwner
    /\ cur_page = UnknownPage
    /\ page_select \in PageVals
    /\ pc = [p \in Procs |-> "idle"]
    /\ ofs = [p \in Procs |-> 0]
    /\ req_len = [p \in Procs |-> 0]
    /\ flags = [p \in Procs |-> 0]
    /\ len = [p \in Procs |-> 0]
    /\ addr = [p \in Procs |-> 0]
    /\ reg = [p \in Procs |-> 0]
    /\ iobuf1 = [p \in Procs |-> 0]
    /\ msg = [p \in Procs |-> << >>]
    /\ error = [p \in Procs |-> 0]
    /\ retval = [p \in Procs |-> 0]
    /\ nverify = [p \in Procs |-> 0]
    /\ nselect = [p \in Procs |-> 0]
    /\ ndata = [p \in Procs |-> 0]
    /\ slept = [p \in Procs |-> FALSE]
    /\ clean = [p \in Procs |-> TRUE]
    /\ entry_fresh = [p \in Procs |-> FALSE]
    /\ inval = FALSE
    /\ prev = NoPrev
    /\ track = FALSE
    /\ job = [p \in Procs |-> NoJob]

\* The same, in a run that records the history of successive accesses.
InitHist ==
    /\ sfp_type \in SfpTypes
    /\ char_signed \in BOOLEAN
    /\ elapsed \in 0 .. MaxElapsed
    /\ lock = NoOwner
    /\ cur_page = UnknownPage
    /\ page_select \in PageVals
    /\ pc = [p \in Procs |-> "idle"]
    /\ ofs = [p \in Procs |-> 0]
    /\ req_len = [p \in Procs |-> 0]
    /\ flags = [p \in Procs |-> 0]
    /\ len = [p \in Procs |-> 0]
    /\ addr = [p \in Procs |-> 0]
    /\ reg = [p \in Procs |-> 0]
    /\ iobuf1 = [p \in Procs |-> 0]
    /\ msg = [p \in Procs |-> << >>]
    /\ error = [p \in Procs |-> 0]
    /\ retval = [p \in Procs |-> 0]
    /\ nverify = [p \in Procs |-> 0]
    /\ nselect = [p \in Procs |-> 0]
    /\ ndata = [p \in Procs |-> 0]
    /\ slept = [p \in Procs |-> FALSE]
    /\ clean = [p \in Procs |-> TRUE]
    /\ entry_fresh = [p \in Procs |-> FALSE]
    /\ inval = FALSE
    /\ prev = NoPrev
    /\ track = TRUE
    /\ job = [p \in Procs |-> NoJob]

(* ------------------------------ actions -------------------------------- *)
\* A return of amzn_sfp_rw is observed as soon as it happens: no step is
\* taken while a caller holds a result that Done has not yet taken.
Quiet == \A q \in Procs : pc[q] # "ret"

\* elapsed after n more jiffies
Later(since, n) == IF since + n > MaxElapsed THEN MaxElapsed ELSE since + n

\* The clock advances by one jiffy.
Tick ==
    /\ Quiet
    /\ elapsed' = Later(elapsed, 1)
    /\ elapsed' # elapsed
    /\ UNCHANGED << sfp_type, char_signed, lock, cur_page, page_select,
                    pc, request, locals, history >>

\* amzn_sfp_read / amzn_sfp_write call amzn_sfp_rw, which validates the
\* request and returns at once or goes on to rt_mutex_lock.
Call(p, o, l, f) ==
    /\ Quiet
    /\ pc[p] = "idle"
    /\ ofs' = [ofs EXCEPT ![p] = o]
    /\ req_len' = [req_len EXCEPT ![p] = l]
    /\ flags' = [flags EXCEPT ![p] = f]
    /\ len' = [len EXCEPT ![p] = l]
    /\ LET v == Validate(AttrSize(sfp_type), o, l) IN
         IF v # 0
         THEN /\ retval' = [retval EXCEPT ![p] = v]
              /\ pc' = [pc EXCEPT ![p] = "ret"]
         ELSE /\ retval' = retval
              /\ pc' = [pc EXCEPT ![p] = "lock"]
    /\ UNCHANGED << shared, addr, reg, iobuf1, msg, error, history >>

\* A lock that never blocks.
LockFreeAlways(owner) == TRUE

\* rt_mutex_lock returns to a caller when the mutex has no owner
LockFree(owner) == owner = NoOwner

\* rt_mutex_lock, then the switch on sc->sfp_type up to the first transfer.
Lock(p) ==
    /\ Quiet
    /\ pc[p] = "lock"
    /\ LockFree(lock)
    /\ lock' = p
    /\ addr' = [addr EXCEPT ![p] = AddrOffset(sfp_type, ofs[p])]
    /\ reg' = [reg EXCEPT ![p] = Reg(sfp_type, ofs[p])]
    /\ len' = [len EXCEPT ![p] = ClampLen(sfp_type, ofs[p], len[p])]
    /\ entry_fresh' = [entry_fresh EXCEPT ![p] = track /\ elapsed <= RetentionJiffies]
    /\ IF IsUpper(sfp_type, ofs[p])
       THEN /\ iobuf1' = [iobuf1 EXCEPT ![p] = PageByte(ofs[p])]
            /\ inval' = FALSE
            /\ pc' = [pc EXCEPT ![p] =
                 IF NeedVerify(cur_page, elapsed) THEN "verify"
                 ELSE IF SamePage(char_signed, PageByte(ofs[p]), cur_page) THEN "prep"
                 ELSE "select"]
       ELSE /\ pc' = [pc EXCEPT ![p] = "prep"]
            /\ UNCHANGED << iobuf1, inval >>
    /\ UNCHANGED << sfp_type, char_signed, elapsed, cur_page, page_select,
                    request, msg, error, retval,
                    nverify, nselect, ndata, slept, clean, prev, track >>

\* UnlockOnError that leaves the mutex with its owner.
NoUnlockOnError(owner) == owner

\* The owner of sc->lock after the rt_mutex_unlock of a failure branch
UnlockOnError(owner) == NoOwner

\* PageAfterFailure that keeps sc->cur_page.
PageKept(page) == page

\* sc->cur_page after a transfer of the page select register failed
PageAfterFailure(page) == UnknownPage

\* The read of the page select register: i2c_transfer of two messages
\* returns an error e or the number e of messages completed.  iobuf[2]
\* holds the register's value when the read completed, and is not
\* initialized otherwise.
VerifyReturns(p, e) ==
    /\ Quiet
    /\ pc[p] = "verify"
    /\ nverify' = [nverify EXCEPT ![p] = @ + 1]
    /\ error' = [error EXCEPT ![p] = e]
    /\ IF IsErr(e)
       THEN /\ cur_page' = PageAfterFailure(cur_page)
            /\ lock' = UnlockOnError(lock)
            /\ retval' = [retval EXCEPT ![p] = e]
            /\ pc' = [pc EXCEPT ![p] = "ret"]
            /\ clean' = [clean EXCEPT ![p] = FALSE]
            /\ inval' = TRUE
            /\ prev' = NoPrev
            /\ UNCHANGED elapsed
       ELSE /\ \E b \in (IF e = 2 THEN {page_select} ELSE PageVals) :
                 /\ cur_page' = CharVal(char_signed, b)
                 /\ pc' = [pc EXCEPT ![p] =
                      IF SamePage(char_signed, iobuf1[p], CharVal(char_signed, b))
                      THEN "prep" ELSE "select"]
            /\ elapsed' = 0
            /\ clean' = [clean EXCEPT ![p] = @ /\ e = 2]
            /\ UNCHANGED << lock, retval, inval, prev >>
    /\ UNCHANGED << sfp_type, char_signed, page_select, request,
                    len, addr, reg, iobuf1, msg, nselect, ndata, slept,
                    entry_fresh, track >>

Verify(p) == \E e \in TransportErrs \cup (0 .. 2) : VerifyReturns(p, e)

\* The write of the page select register: i2c_transfer of one message.
\* The register holds the desired page when the write completed; when it
\* did not, the write may or may not have reached the device.
SelectReturns(p, e) ==
    /\ Quiet
    /\ pc[p] = "select"
    /\ nselect' = [nselect EXCEPT ![p] = @ + 1]
    /\ error' = [error EXCEPT ![p] = e]
    /\ page_select' \in (IF e = 1 THEN {iobuf1[p]} ELSE {page_select, iobuf1[p]})
    /\ IF IsErr(e)
       THEN /\ cur_page' = PageAfterFailure(cur_page)
            /\ lock' = UnlockOnError(lock)
            /\ retval' = [retval EXCEPT ![p] = e]
            /\ pc' = [pc EXCEPT ![p] = "ret"]
            /\ clean' = [clean EXCEPT ![p] = FALSE]
            /\ inval' = TRUE
            /\ prev' = NoPrev
            /\ UNCHANGED elapsed
       ELSE /\ cur_page' = CharVal(char_signed, iobuf1[p])
            /\ elapsed' = 0
            /\ pc' = [pc EXCEPT ![p] = "prep"]
            /\ clean' = [clean EXCEPT ![p] = @ /\ e = 1]
            /\ UNCHANGED << lock, retval, inval, prev >>
    /\ UNCHANGED << sfp_type, char_signed, request,
                    len, addr, reg, iobuf1, msg, nverify, ndata, slept,
                    entry_fresh, track >>

Select(p) == \E e \in TransportErrs \cup (0 .. 1) : SelectReturns(p, e)

\* The clamp to 64 bytes, the data phase's messages and the decision to
\* wait for the page to load.
Prep(p) ==
    /\ Quiet
    /\ pc[p] = "prep"
    /\ len' = [len EXCEPT ![p] = ClampChunk(len[p])]
    /\ msg' = [msg EXCEPT ![p] = DataMsgs(addr[p], flags[p], reg[p], ClampChunk(len[p]))]
    /\ pc' = [pc EXCEPT ![p] = IF NeedSettle(elapsed) THEN "sleep" ELSE "xfer"]
    /\ UNCHANGED << shared, request, addr, reg, iobuf1, error, retval, history >>

\* jiffies that pass, at least, while usleep_range(ts, ts + 1000) sleeps
SleepJiffies == (amzn_sfp_page_load_wait_ms * HZ) \div 1000

\* usleep_range returns.
Sleep(p) ==
    /\ Quiet
    /\ pc[p] = "sleep"
    /\ slept' = [slept EXCEPT ![p] = TRUE]
    /\ elapsed' = Later(elapsed, SleepJiffies)
    /\ pc' = [pc EXCEPT ![p] = "xfer"]
    /\ UNCHANGED << sfp_type, char_signed, lock, cur_page, page_select,
                    request, locals, nverify, nselect, ndata, clean,
                    entry_fresh, inval, prev, track >>

\* Whether a write of l bytes at register r covers the page select register.
CoversPageSelect(type, f, r, l) ==
    /\ type \in QsfpTypes
    /\ f # I2C_M_RD
    /\ r <= AMZN_QSFP_PAGE_SELECT
    /\ r + l > AMZN_QSFP_PAGE_SELECT

\* The data phase: i2c_transfer returns an error e or the number e of
\* messages completed, then rt_mutex_unlock and the return value.  A write
\* that covers byte 127 stores the caller's byte w in the device's page
\* select register.
DataReturns(p, e) ==
    /\ Quiet
    /\ pc[p] = "xfer"
    /\ ndata' = [ndata EXCEPT ![p] = @ + 1]
    /\ lock' = NoOwner
    /\ pc' = [pc EXCEPT ![p] = "ret"]
    /\ error' = [error EXCEPT ![p] = e]
    /\ retval' = [retval EXCEPT ![p] = Result(e, Len(msg[p]), len[p])]
    /\ clean' = [clean EXCEPT ![p] = @ /\ e = Len(msg[p])]
    /\ prev' = IF track /\ IsUpper(sfp_type, ofs[p]) /\ clean[p] /\ e = Len(msg[p])
               THEN [page |-> iobuf1[p], nsel |-> nselect[p]]
               ELSE NoPrev
    /\ IF CoversPageSelect(sfp_type, flags[p], reg[p], len[p])
       THEN \E w \in PageVals :
              page_select' \in (IF e = Len(msg[p]) THEN {w} ELSE {page_select, w})
       ELSE page_select' = page_select
    /\ UNCHANGED << sfp_type, char_signed, elapsed, cur_page, request,
                    len, addr, reg, iobuf1, msg, nverify, nselect, slept,
                    entry_fresh, inval, track >>

Data(p) == \E e \in TransportErrs \cup (0 .. Len(msg[p])) : DataReturns(p, e)

\* The caller has the result; its next call starts afresh.
Done(p) ==
    /\ pc[p] = "ret"
    /\ pc' = [pc EXCEPT ![p] = "idle"]
    /\ ofs' = [ofs EXCEPT ![p] = 0]
    /\ req_len' = [req_len EXCEPT ![p] = 0]
    /\ flags' = [flags EXCEPT ![p] = 0]
    /\ len' = [len EXCEPT ![p] = 0]
    /\ addr' = [addr EXCEPT ![p] = 0]
    /\ reg' = [reg EXCEPT ![p] = 0]
    /\ iobuf1' = [iobuf1 EXCEPT ![p] = 0]
    /\ msg' = [msg EXCEPT ![p] = << >>]
    /\ error' = [error EXCEPT ![p] = 0]
    /\ retval' = [retval EXCEPT ![p] = 0]
    /\ nverify' = [nverify EXCEPT ![p] = 0]
    /\ nselect' = [nselect EXCEPT ![p] = 0]
    /\ ndata' = [ndata EXCEPT ![p] = 0]
    /\ slept' = [slept EXCEPT ![p] = FALSE]
    /\ clean' = [clean EXCEPT ![p] = TRUE]
    /\ entry_fresh' = [entry_fresh EXCEPT ![p] = FALSE]
    /\ UNCHANGED << shared, inval, prev, track >>

\* The callers issue single requests: none works off a job.
Next ==
    \/ Tick /\ UNCHANGED job
    \/ \E p \in Procs : \E r \in Requests(sfp_type) : Call(p, r[1], r[2], r[3]) /\ UNCHANGED job
    \/ \E p \in Procs : Lock(p) /\ UNCHANGED job
    \/ \E p \in Procs : Verify(p) /\ UNCHANGED job
    \/ \E p \in Procs : Select(p) /\ UNCHANGED job
    \/ \E p \in Procs : Prep(p) /\ UNCHANGED job
    \/ \E p \in Procs : Sleep(p) /\ UNCHANGED job
    \/ \E p \in Procs : Data(p) /\ UNCHANGED job
    \/ \E p \in Procs : Done(p) /\ UNCHANGED job

Spec == Init /\ [][Next]_vars

\* The runs that record the history of successive accesses: the accesses
\* of the first HistCallers callers.
NextHist ==
    \/ Tick /\ UNCHANGED job
    \/ \E p \in 1 .. HistCallers : \E r \in Requests(sfp_type) :
         Call(p, r[1], r[2], r[3]) /\ UNCHANGED job
    \/ \E p \in 1 .. HistCallers : Lock(p) /\ UNCHANGED job
    \/ \E p \in 1 .. HistCallers : Verify(p) /\ UNCHANGED job
    \/ \E p \in 1 .. HistCallers : Select(p) /\ UNCHANGED job
    \/ \E p \in 1 .. HistCallers : Prep(p) /\ UNCHANGED job
    \/ \E p \in 1 .. HistCallers : Sleep(p) /\ UNCHANGED job
    \/ \E p \in 1 .. HistCallers : Data(p) /\ UNCHANGED job
    \/ \E p \in 1 .. HistCallers : Done(p) /\ UNCHANGED job

SpecHist == InitHist /\ [][NextHist]_vars

\* The runs in which no transfer fails: every i2c_transfer returns the
\* number of messages submitted.
NextOk ==
    \/ Tick /\ UNCHANGED job
    \/ \E p \in Procs : \E r \in Requests(sfp_type) : Call(p, r[1], r[2], r[3]) /\ UNCHANGED job
    \/ \E p \in Procs : Lock(p) /\ UNCHANGED job
    \/ \E p \in Procs : VerifyReturns(p, 2) /\ UNCHANGED job
    \/ \E p \in Procs : SelectReturns(p, 1) /\ UNCHANGED job
    \/ \E p \in Procs : Prep(p) /\ UNCHANGED job
    \/ \E p \in Procs : Sleep(p) /\ UNCHANGED job
    \/ \E p \in Procs : DataReturns(p, Len(msg[p])) /\ UNCHANGED job
    \/ \E p \in Procs : Done(p) /\ UNCHANGED job

SpecOk == Init /\ [][NextOk]_vars

(* --------------------------- the caller's loop ------------------------- *)
\* A caller takes up a valid request (o, l, f) and issues the first call.
Begin(p, o, l, f) ==
    /\ job[p] = NoJob
    /\ Validate(AttrSize(sfp_type), o, l) = 0
    /\ Call(p, o, l, f)
    /\ job' = [job EXCEPT ![p] =
                 [start |-> o, total |-> l, flags |-> f, done |-> 0, calls |-> 1]]

\* The caller reissues the access for the remainder of its request.
Reissue(p) ==
    /\ job[p] # NoJob
    /\ job[p].done < job[p].total
    /\ Call(p, job[p].start + job[p].done, job[p].total - job[p].done, job[p].flags)
    /\ job' = [job EXCEPT ![p].calls = @ + 1]

\* The caller takes the result of a call: the bytes transferred count as
\* done; an error ends the request.
Return(p) ==
    /\ job[p] # NoJob
    /\ Done(p)
    /\ job' = [job EXCEPT ![p] =
                 IF IsErr(retval[p]) THEN NoJob
                 ELSE [@ EXCEPT !.done = @ + retval[p]]]

\* The caller has transferred all the bytes of its request.
Finish(p) ==
    /\ pc[p] = "idle"
    /\ job[p] # NoJob
    /\ job[p].done >= job[p].total
    /\ job' = [job EXCEPT ![p] = NoJob]
    /\ UNCHANGED << shared, pc, request, locals, history >>

\* The runs of the first LoopCallers callers, which work off their requests
\* call by call, with no transfer failing.
NextLoop ==
    \/ Tick /\ UNCHANGED job
    \/ \E p \in 1 .. LoopCallers : \E r \in Requests(sfp_type) : Begin(p, r[1], r[2], r[3])
    \/ \E p \in 1 .. LoopCallers : Reissue(p)
    \/ \E p \in 1 .. LoopCallers : Lock(p) /\ UNCHANGED job
    \/ \E p \in 1 .. LoopCallers : VerifyReturns(p, 2) /\ UNCHANGED job
    \/ \E p \in 1 .. LoopCallers : SelectReturns(p, 1) /\ UNCHANGED job
    \/ \E p \in 1 .. LoopCallers : Prep(p) /\ UNCHANGED job
    \/ \E p \in 1 .. LoopCallers : Sleep(p) /\ UNCHANGED job
    \/ \E p \in 1 .. LoopCallers : DataReturns(p, Len(msg[p])) /\ UNCHANGED job
    \/ \E p \in 1 .. LoopCallers : Return(p)
    \/ \E p \in 1 .. LoopCallers : Finish(p)

\* The steps of caller p once it has taken up a request.
CallerStep(p) ==
    \/ Reissue(p)
    \/ Lock(p) /\ UNCHANGED job
    \/ VerifyReturns(p, 2) /\ UNCHANGED job
    \/ SelectReturns(p, 1) /\ UNCHANGED job
    \/ Prep(p) /\ UNCHANGED job
    \/ Sleep(p) /\ UNCHANGED job
    \/ DataReturns(p, Len(msg[p])) /\ UNCHANGED job
    \/ Return(p)
    \/ Finish(p)

\* Every caller that can take a step again and again does take one: the
\* scheduler runs every runnable thread and rt_mutex_lock queues its
\* waiters.
SpecLoop ==
    /\ Init
    /\ [][NextLoop]_vars
    /\ \A p \in 1 .. LoopCallers : SF_vars(CallerStep(p))

(* ------------------------------ properties ----------------------------- *)
\* The size of the flat address space of each class (spec, section 3).
ExposedSize(type) ==
    IF type = AMZN_SFP_TYPE_SFP_PLUS THEN 512
    ELSE IF type \in QsfpTypes THEN 32896
    ELSE 256

\* The positions of amzn_sfp_rw between rt_mutex_lock and rt_mutex_unlock.
InCS == { "verify", "select", "prep", "sleep", "xfer" }

\* The access of p has built the messages of its data phase.
HasMsgs(p) == pc[p] \in { "sleep", "xfer" } \/ (pc[p] = "ret" /\ ndata[p] = 1)

\* The payload bytes the data phase of p carries.
Payload(p) == IF flags[p] = I2C_M_RD THEN msg[p][2].len ELSE msg[p][1].len - 1

\* The data phase of p completed in full and p returned.
Returned(p) == pc[p] = "ret" /\ ndata[p] = 1 /\ error[p] = Len(msg[p])

\* The error the shape of p's request calls for, 0 for none.
ShapeError(p) ==
    IF ofs[p] < 0 \/ ofs[p] >= ExposedSize(sfp_type) THEN ESPIPE
    ELSE IF req_len[p] = 0 THEN EINVAL
    ELSE IF ofs[p] + req_len[p] > ExposedSize(sfp_type) THEN ENOSPC
    ELSE 0

C1_Inv ==
    \A p \in Procs :
        /\ (pc[p] = "ret" /\ ShapeError(p) # 0) =>
              /\ retval[p] = ShapeError(p)
              /\ nverify[p] = 0 /\ nselect[p] = 0 /\ ndata[p] = 0
              /\ lock # p
        /\ pc[p] \in InCS \cup { "lock" } => ShapeError(p) = 0

C1_Act ==
    \A p \in Procs :
        (pc[p] = "idle" /\ pc'[p] = "ret") =>
            UNCHANGED << lock, cur_page, elapsed, page_select >>

\* C1: in every class a request is validated first: offset < 0 or
\* offset >= exposed_size returns -ESPIPE, otherwise length 0 returns
\* -EINVAL, otherwise offset + length > exposed_size returns -ENOSPC; a
\* rejected request takes no lock, issues no transfer and leaves the
\* believed page and its timestamp as they were.
C1_ShapeChecked == [] C1_Inv /\ [][C1_Act]_vars

\* A request is rejected with -ENOSPC while another caller holds the lock.
C1_Witness ==
    \E p \in Procs :
        /\ pc[p] = "ret" /\ retval[p] = ENOSPC
        /\ lock \notin { NoOwner, p }

C2_Inv ==
    /\ \A p \in Procs : pc[p] \in InCS => lock = p
    /\ Cardinality({ p \in Procs : pc[p] \in InCS }) <= 1

C2_Act ==
    \A q \in Procs :
        /\ (nverify'[q] > nverify[q] \/ nselect'[q] > nselect[q]
              \/ ndata'[q] > ndata[q]) =>
              /\ lock = q
              /\ \A p \in Procs \ {q} : pc[p] \notin InCS
        /\ (pc[q] \in InCS /\ pc'[q] \in InCS) => lock' = q

\* C2: at most one access is inside the critical section; the lock is held
\* from before the first transfer of an access until its data phase has
\* returned, and no transfer of another caller falls between a caller's
\* page select write and its data phase.
C2_Exclusive == [] C2_Inv /\ [][C2_Act]_vars

\* A caller waits for the lock while another, having written the page
\* select register, is about to issue its data phase.
C2_Witness ==
    \E p, q \in Procs :
        /\ p # q
        /\ pc[p] = "lock"
        /\ pc[q] = "xfer" /\ nselect[q] = 1

\* C3: in an SFP+ session the data phase goes to bus address
\* base + offset / 256 at register offset % 256 and carries at most
\* 256 - offset % 256 bytes; write(offset = 300, 10 bytes) is one message
\* of 11 bytes to base + 1, register 44, and returns 10.
C3_SfpPlusAddressing ==
    sfp_type = AMZN_SFP_TYPE_SFP_PLUS =>
        \A p \in Procs :
            HasMsgs(p) =>
                /\ \A i \in 1 .. Len(msg[p]) : msg[p][i].addr = ofs[p] \div 256
                /\ msg[p][1].reg = ofs[p] % 256
                /\ Payload(p) >= 1
                /\ Payload(p) <= 256 - (ofs[p] % 256)
                /\ (ofs[p] = 300 /\ req_len[p] = 10 /\ flags[p] = 0) =>
                      /\ msg[p] = << [addr |-> 1, flags |-> 0, len |-> 11, reg |-> 44] >>
                      /\ Returned(p) => retval[p] = 10

\* The write of 10 bytes at offset 300 returned 10.
C3_Witness ==
    /\ sfp_type = AMZN_SFP_TYPE_SFP_PLUS
    /\ \E p \in Procs :
         Returned(p) /\ ofs[p] = 300 /\ req_len[p] = 10 /\ retval[p] = 10

\* The access of p took the lock of a QSFP session for an upper-half offset.
UpperAccess(p) ==
    /\ sfp_type \in QsfpTypes
    /\ pc[p] \in InCS \cup { "ret" }
    /\ ShapeError(p) = 0
    /\ ofs[p] >= 128

\* The access of p took the lock of a QSFP session for a lower-half offset.
LowerAccess(p) ==
    /\ sfp_type \in QsfpTypes
    /\ pc[p] \in InCS \cup { "ret" }
    /\ ShapeError(p) = 0
    /\ ofs[p] < 128

\* p leaves rt_mutex_lock in this step.
TakesLock(p) == pc[p] = "lock" /\ pc'[p] # "lock"

C4_Inv ==
    \A p \in Procs :
        UpperAccess(p) =>
            /\ iobuf1[p] = (ofs[p] \div 128) - 1
            /\ reg[p] = (ofs[p] % 128) + 128
            /\ reg[p] >= 128 /\ reg[p] < 256
            /\ len[p] >= 1 /\ len[p] <= 256 - reg[p]
            /\ nverify[p] <= 1
            /\ HasMsgs(p) =>
                  /\ msg[p][1].reg = reg[p]
                  /\ \A i \in 1 .. Len(msg[p]) : msg[p][i].addr = 0
                  /\ Payload(p) >= 1 /\ Payload(p) <= 256 - reg[p]
            /\ (ofs[p] = 200 /\ req_len[p] = 50 /\ flags[p] = I2C_M_RD) =>
                  /\ iobuf1[p] = 0
                  /\ HasMsgs(p) =>
                        msg[p] = << [addr |-> 0, flags |-> 0, len |-> 1, reg |-> 200],
                                    [addr |-> 0, flags |-> I2C_M_RD, len |-> 50,
                                     reg |-> -1] >>
                  /\ (HasMsgs(p) /\ pc[p] # "ret" /\ clean[p] /\ nverify[p] = 1) =>
                        page_select = 0
                  /\ Returned(p) => retval[p] = 50

C4_Act ==
    \A p \in Procs :
        /\ (TakesLock(p) /\ sfp_type \in QsfpTypes /\ ofs[p] >= 128
              /\ cur_page = UnknownPage) =>
              pc'[p] = "verify"
        /\ (pc[p] = "verify" /\ pc'[p] # "verify") => nverify'[p] = 1

\* C4: for every valid upper-half offset of a QSFP session the desired page
\* is offset / 128 - 1, the register of the data phase is
\* offset % 128 + 128, within [128, 256), and the data phase carries at most
\* 256 - register bytes; read(offset = 200, 50 bytes) with the believed page
\* unknown issues one read of the page select register, addresses
\* register 200 of page 0 and returns 50.
C4_UpperHalfAddressing == [] C4_Inv /\ [][C4_Act]_vars

\* The read of 50 bytes at offset 200 returned 50 after one read of the
\* page select register, with the device on page 0.
C4_Witness ==
    \E p \in Procs :
        /\ UpperAccess(p) /\ Returned(p)
        /\ ofs[p] = 200 /\ req_len[p] = 50 /\ flags[p] = I2C_M_RD
        /\ nverify[p] = 1 /\ clean[p]
        /\ page_select = 0 /\ retval[p] = 50

C5_Inv ==
    \A p \in Procs :
        LowerAccess(p) =>
            /\ pc[p] \notin { "verify", "select" }
            /\ nverify[p] = 0 /\ nselect[p] = 0 /\ ndata[p] <= 1
            /\ pc[p] = "ret" => ndata[p] = 1
            /\ reg[p] = ofs[p]
            /\ HasMsgs(p) =>
                  /\ msg[p][1].reg = ofs[p]
                  /\ \A i \in 1 .. Len(msg[p]) : msg[p][i].addr = 0
                  /\ Payload(p) >= 1 /\ Payload(p) <= 128 - ofs[p]

C5_Act ==
    \A p \in Procs :
        (sfp_type \in QsfpTypes /\ pc'[p] # pc[p] /\ pc[p] # "ret"
           /\ ofs'[p] < 128) =>
            /\ cur_page' = cur_page
            /\ elapsed' >= elapsed

\* C5: a valid lower-half access of a QSFP session issues neither a read
\* nor a write of the page select register by the paging logic, issues
\* exactly one transfer, the data phase at register = offset with at most
\* 128 - offset bytes, and leaves the believed page and its timestamp
\* unchanged.
C5_LowerHalfNoPaging == [] C5_Inv /\ [][C5_Act]_vars

\* A lower-half write of 100 bytes at offset 100 returned 28 while the
\* believed page is known.
C5_Witness ==
    \E p \in Procs :
        /\ LowerAccess(p) /\ Returned(p)
        /\ ofs[p] = 100 /\ req_len[p] = 100 /\ retval[p] = 28
        /\ cur_page # UnknownPage

\* The bytes from offset o to the internal boundary of the class: the end
\* of the 256-byte bank (SFP+), of the lower half or of the page (QSFP),
\* of the EEPROM (no class).
BoundaryDistance(type, o) ==
    IF type = AMZN_SFP_TYPE_SFP_PLUS THEN 256 - (o % 256)
    ELSE IF type \in QsfpTypes THEN 128 - (o % 128)
    ELSE 256 - o

Min(a, b) == IF a < b THEN a ELSE b

\* C6: when the data phase of a valid request completes, the count returned
\* is min(requested length, distance to the class's boundary, 64), at least
\* 1 and at most the requested length, and is the number of payload bytes
\* of the one data phase (read: a 1-byte register write and a read of count
\* bytes; write: one message of count + 1 bytes); a short count is not an
\* error.
C6_ClampedCount ==
    \A p \in Procs :
        Returned(p) =>
            LET n == Min(Min(req_len[p], BoundaryDistance(sfp_type, ofs[p])), 64) IN
                /\ retval[p] = n
                /\ n >= 1 /\ n <= req_len[p]
                /\ ~IsErr(retval[p])
                /\ ndata[p] = 1
                /\ Payload(p) = n
                /\ IF flags[p] = I2C_M_RD
                   THEN /\ Len(msg[p]) = 2
                        /\ msg[p][1].flags = 0 /\ msg[p][1].len = 1
                        /\ msg[p][2].flags = I2C_M_RD /\ msg[p][2].len = n
                   ELSE /\ Len(msg[p]) = 1
                        /\ msg[p][1].flags = 0 /\ msg[p][1].len = n + 1

\* A read of more than 64 bytes, with more than 64 bytes to the boundary,
\* returned 64.
C6_Witness ==
    \E p \in Procs :
        /\ Returned(p) /\ clean[p]
        /\ flags[p] = I2C_M_RD
        /\ req_len[p] > 64 /\ BoundaryDistance(sfp_type, ofs[p]) > 64
        /\ retval[p] = 64

\* C7: two successive upper-half accesses to one page, with no other access
\* between them and every transfer of both completed, write the page select
\* register at most once in total; the second writes it not at all when it
\* takes the lock within the retention of the timestamp.
C7_SelectOnce ==
    \A p \in Procs :
        (/\ track
         /\ UpperAccess(p)
         /\ pc[p] \in { "prep", "sleep", "xfer" }
         /\ clean[p]
         /\ prev.page = iobuf1[p]) =>
            /\ prev.nsel + nselect[p] <= 1
            /\ entry_fresh[p] => nselect[p] = 0

\* The second of two accesses to one page is about to issue its data phase
\* without a write of the page select register, the first having written it.
C7_Witness ==
    \E p \in Procs :
        /\ track
        /\ UpperAccess(p)
        /\ pc[p] = "xfer"
        /\ clean[p]
        /\ prev.page = iobuf1[p] /\ prev.nsel = 1
        /\ entry_fresh[p] /\ nselect[p] = 0

C8_Inv ==
    \A p \in Procs :
        pc[p] = "verify" =>
            /\ lock = p
            /\ nverify[p] = 0 /\ nselect[p] = 0 /\ ndata[p] = 0

C8_Act ==
    \A p \in Procs :
        /\ (/\ TakesLock(p)
            /\ sfp_type \in QsfpTypes /\ ofs[p] >= 128
            /\ \/ cur_page = UnknownPage
               \/ elapsed > amzn_sfp_page_retention * HZ) =>
              pc'[p] = "verify"
        /\ (pc[p] = "verify" /\ pc'[p] # "verify") =>
              /\ nverify'[p] = 1
              /\ nselect'[p] = 0 /\ ndata'[p] = 0

\* C8: when the timestamp is older than the retention, or the believed page
\* is -1, the next upper-half access reads the page select register before
\* it writes that register or issues its data phase, also when the believed
\* page equals the desired page.
C8_StaleVerifies == [] C8_Inv /\ [][C8_Act]_vars

\* An access is about to read the page select register although the
\* believed page is the desired page: the timestamp is too old.
C8_Witness ==
    \E p \in Procs :
        /\ UpperAccess(p)
        /\ pc[p] = "verify"
        /\ cur_page # UnknownPage
        /\ cur_page = CharVal(char_signed, iobuf1[p])
        /\ elapsed > amzn_sfp_page_retention * HZ

C9_Inv ==
    \A p \in Procs :
        /\ pc[p] \in { "select", "prep", "sleep", "xfer" } => ~IsErr(error[p])
        /\ (pc[p] = "ret" /\ ndata[p] = 0 /\ nverify[p] + nselect[p] > 0) =>
              /\ IsErr(error[p])
              /\ retval[p] = error[p]
              /\ cur_page = UnknownPage
              /\ lock = NoOwner
              /\ inval

C9_Act ==
    \A p \in Procs :
        /\ (pc[p] \in { "verify", "select" } /\ pc'[p] # pc[p]
              /\ IsErr(error'[p])) =>
              /\ pc'[p] = "ret"
              /\ retval'[p] = error'[p]
              /\ cur_page' = UnknownPage
              /\ ndata'[p] = 0
        /\ (inval /\ TakesLock(p) /\ IsUpper(sfp_type, ofs[p])) =>
              pc'[p] = "verify"

\* C9: when the transport reports a failure of the read or of the write of
\* the page select register, the access returns that failure with the
\* believed page -1 and without a data phase, and the next upper-half
\* access reads the page select register.
C9_PageFailureInvalidates == [] C9_Inv /\ [][C9_Act]_vars

\* The write of the page select register failed after the read had made the
\* believed page known: the access returned the failure, the page is -1.
C9_Witness ==
    \E p \in Procs :
        /\ pc[p] = "ret"
        /\ nverify[p] = 1 /\ nselect[p] = 1 /\ ndata[p] = 0
        /\ error[p] \in TransportErrs /\ retval[p] = error[p]
        /\ cur_page = UnknownPage

\* C10: after an access in which a transfer failed, the data phase
\* included (a transport failure or -EPIPE), the believed page is -1 when
\* the access returns.
C10_AllFailuresInvalidate ==
    \A p \in Procs :
        (/\ pc[p] = "ret"
         /\ nverify[p] + nselect[p] + ndata[p] > 0
         /\ IsErr(retval[p])) =>
            cur_page = UnknownPage

\* The jiffies counter advanced by elapsed since the timestamp was taken, so
\* more than elapsed - 1 tick periods of 1000 / HZ ms have passed since:
\* at least ms milliseconds when (elapsed - 1) * 1000 >= ms * HZ.
PassedMs(ms) == (elapsed - 1) * 1000 >= ms * HZ

C11_Inv ==
    \A p \in Procs :
        (pc[p] = "xfer" /\ nselect[p] = 1) =>
            slept[p] \/ PassedMs(amzn_sfp_page_load_wait_ms)

C11_Act ==
    \A p \in Procs :
        (pc[p] = "prep" /\ pc'[p] # "prep"
           /\ PassedMs(amzn_sfp_page_load_wait_ms)) =>
            /\ pc'[p] = "xfer"
            /\ ~slept'[p]

\* C11: an access that wrote the page select register issues its data
\* phase no earlier than amzn_sfp_page_load_wait_ms after the write: it
\* has slept that long, or that long has passed already; an access that
\* reaches its data phase after the settle window has passed does not
\* sleep.
C11_SettleDelay == [] C11_Inv /\ [][C11_Act]_vars

\* An access that wrote the page select register has slept and is about to
\* issue its data phase.
C11_Witness ==
    \E p \in Procs :
        /\ pc[p] = "xfer" /\ nselect[p] = 1 /\ clean[p]
        /\ slept[p]
        /\ ~PassedMs(amzn_sfp_page_load_wait_ms)

\* C12: when the data phase's transfer reports fewer messages completed
\* than submitted, the access returns -EPIPE; -EPIPE is returned for no
\* error of the transport, and a byte count only when every message
\* completed.
C12_ProtocolErrorDistinct ==
    \A p \in Procs :
        (pc[p] = "ret" /\ ndata[p] = 1) =>
            /\ (~IsErr(error[p]) /\ error[p] # Len(msg[p])) => retval[p] = EPIPE
            /\ IsErr(error[p]) => retval[p] # EPIPE
            /\ ~IsErr(retval[p]) => error[p] = Len(msg[p])
            /\ Len(msg[p]) = (IF flags[p] = I2C_M_RD THEN 2 ELSE 1)

\* C13: an access sleeps before its data phase if and only if it wrote the
\* page select register and less than the settle window has passed since;
\* an access that did not write the register, such as one that only read
\* it, never sleeps.  Stated for the accesses of the upper half, the ones
\* the paging logic serves.
C13_SleepOnlyAfterSelect ==
    \A p \in Procs :
        UpperAccess(p) =>
            /\ slept[p] => nselect[p] = 1
            /\ (pc[p] = "xfer" /\ nselect[p] = 1 /\ ~slept[p]) =>
                  PassedMs(amzn_sfp_page_load_wait_ms)

\* C14: the believed page is trusted over the half-open window
\* [timestamp, timestamp + retention): an upper-half access reads the page
\* select register exactly when the believed page is -1 or the time is
\* outside that window, the instant timestamp + retention included.
C14_HalfOpenWindow ==
    [][ \A p \in Procs :
          (TakesLock(p) /\ IsUpper(sfp_type, ofs[p])) =>
              (pc'[p] = "verify" <=>
                  (cur_page = UnknownPage
                     \/ elapsed >= amzn_sfp_page_retention * HZ)) ]_vars

\* C14, amended: the window is closed, [timestamp, timestamp + retention]:
\* an upper-half access reads the page select register exactly when the
\* believed page is -1 or the time is after timestamp + retention.
C14_ClosedWindow ==
    [][ \A p \in Procs :
          (TakesLock(p) /\ IsUpper(sfp_type, ofs[p])) =>
              (pc'[p] = "verify" <=>
                  (cur_page = UnknownPage
                     \/ elapsed > amzn_sfp_page_retention * HZ)) ]_vars

\* An upper-half access has gone past the test of the retention without a
\* read of the page select register, at the instant timestamp + retention.
C14_Witness ==
    \E p \in Procs :
        /\ UpperAccess(p)
        /\ pc[p] \in { "prep", "select" }
        /\ nverify[p] = 0 /\ nselect[p] = 0
        /\ elapsed = amzn_sfp_page_retention * HZ

\* C15: an upper-half access writes the page select register if and only
\* if the believed page, after the read of the register if the access made
\* one, differs from the desired page; when they are equal, page 0
\* included, the access goes on to its data phase without that write.
C15_WriteOnlyOnMismatch ==
    \A p \in Procs :
        UpperAccess(p) =>
            /\ nselect[p] <= 1
            /\ pc[p] = "select" =>
                  /\ nselect[p] = 0
                  /\ cur_page % 256 # iobuf1[p]
            /\ (pc[p] \in { "prep", "sleep", "xfer" } /\ nselect[p] = 0) =>
                  cur_page % 256 = iobuf1[p]
            /\ (pc[p] \in { "prep", "sleep", "xfer" } /\ nselect[p] = 1) =>
                  cur_page % 256 = iobuf1[p]

\* An access to page 0 found page 0 in the page select register and goes on
\* without writing it.
C15_Witness ==
    \E p \in Procs :
        /\ UpperAccess(p)
        /\ pc[p] = "xfer"
        /\ nverify[p] = 1 /\ nselect[p] = 0 /\ clean[p]
        /\ iobuf1[p] = 0 /\ cur_page = 0

\* C16: for every desired page in 0 .. 255, after a page select write that
\* completed the believed page is the desired page, an index in 0 .. 255
\* and never -1; after a read of the page select register that completed it
\* is the value read, likewise; so a second access to the same page within
\* the retention neither reads nor writes the page select register.
C16_PageIndexKept ==
    \A p \in Procs :
        UpperAccess(p) =>
            /\ (pc[p] \in { "prep", "sleep", "xfer" } /\ nselect[p] = 1 /\ clean[p]) =>
                  /\ cur_page = iobuf1[p]
                  /\ cur_page \in 0 .. 255
            /\ (pc[p] \in { "select", "prep", "sleep", "xfer" }
                  /\ nverify[p] = 1 /\ nselect[p] = 0 /\ clean[p]) =>
                  /\ cur_page = page_select
                  /\ cur_page \in 0 .. 255
            /\ (track /\ pc[p] \in InCS /\ entry_fresh[p] /\ prev.page = iobuf1[p]) =>
                  /\ pc[p] \notin { "verify", "select" }
                  /\ nverify[p] = 0 /\ nselect[p] = 0

\* C18: the believed page holds only -1 or the value of a read or write of
\* the page select register that completed in full: after a read or write
\* of that register of which the transport reports fewer messages completed
\* than submitted, the believed page is -1 and the access does not go on.
C18_OnlyCompletedTransfers ==
    \A p \in Procs :
        /\ pc[p] \in InCS => clean[p]
        /\ (~clean[p] /\ ndata[p] = 0) =>
              /\ pc[p] = "ret"
              /\ cur_page = UnknownPage

\* C19: the lock is released on every return path of an access that took
\* it: whenever no access is between rt_mutex_lock and its return the lock
\* has no owner, and a caller that has returned does not own it.
C19_LockReleased ==
    /\ (\A p \in Procs : pc[p] \notin InCS) => lock = NoOwner
    /\ \A p \in Procs : pc[p] = "ret" => lock # p

\* An access returned the failure of its page select write while another
\* caller waits for the lock, which is free.
C19_Witness ==
    \E p, q \in Procs :
        /\ pc[p] = "ret" /\ nselect[p] = 1 /\ ndata[p] = 0
        /\ IsErr(retval[p])
        /\ pc[q] = "lock"
        /\ lock = NoOwner

\* C17: when the page select register changes only through the session's
\* transfers and no transfer fails, every upper-half access issues its data
\* phase while the register holds the desired page; that is, a believed
\* page that is known and within its retention is the page the device has
\* selected.
C17_PageCorrectAtData ==
    /\ \A p \in Procs :
          (UpperAccess(p) /\ pc[p] = "xfer") => page_select = iobuf1[p]
    /\ (cur_page # UnknownPage /\ elapsed <= amzn_sfp_page_retention * HZ) =>
          cur_page = CharVal(char_signed, page_select)

C20_Inv ==
    \A p \in Procs :
        job[p] # NoJob =>
            /\ job[p].done <= job[p].total
            /\ job[p].calls >= 1 /\ job[p].calls <= job[p].done + 1
            /\ job[p].calls <= job[p].total
            /\ pc[p] # "idle" =>
                  /\ ofs[p] = job[p].start + job[p].done
                  /\ req_len[p] = job[p].total - job[p].done
                  /\ ShapeError(p) = 0
            /\ pc[p] = "ret" =>
                  /\ ndata[p] = 1
                  /\ retval[p] >= 1
                  /\ retval[p] <= job[p].total - job[p].done
                  /\ Payload(p) = retval[p]

\* C20: a caller that reissues the access for (offset + n, length - n)
\* after each return of n bytes, no transfer failing, has transferred all
\* length bytes after finitely many calls: each call transfers at least one
\* byte and starts at the byte after the last one transferred, up to
\* offset + length.
C20_CallerLoopProgress ==
    /\ [] C20_Inv
    /\ \A p \in Procs :
          (job[p] # NoJob) ~> (job[p].total > 0 /\ job[p].done = job[p].total)

\* A write of 100 bytes at offset 100 of a QSFP session is complete after
\* three calls, of 28, 64 and 8 bytes.
C20_Witness ==
    \E p \in Procs :
        /\ sfp_type \in QsfpTypes
        /\ job[p].start = 100 /\ job[p].total = 100 /\ job[p].flags = 0
        /\ job[p].done = 100 /\ job[p].calls = 3

=============================================================================
